---- MODULE Spec2Model ----
(***************************************************************************)
(* Model of the pi-ts-aperture extension (src/src/index.ts): provider      *)
(* routing through an Aperture gateway.  The host's model registry is an   *)
(* external collaborator; its operations are modelled from the boundary    *)
(* description (register/overwrite by name, remove by name, enumerate,     *)
(* look up by (provider, id)).                                             *)
(*                                                                         *)
(* Strings that the code inspects character by character (URLs) are        *)
(* sequences of one-character strings.                                     *)
(***************************************************************************)
EXTENDS Integers, Sequences, FiniteSets, TLC

VARIABLES
    loaded,                   \* the default export has run (index.ts:80-124)
    config,                   \* configLoader.getConfig(): [baseUrl, providers]
    lastRegisteredProviders,  \* index.ts:83
    registry,                 \* host registry: provider -> descriptor
    activeModel,              \* ctx.model: the host's active-model snapshot
    pending,                  \* setup.ts:317-318: config saved, onConfigChange not yet run
    event,                    \* kind of the last step taken
    calls,                    \* host calls issued by the extension in the last step
    everRouted,               \* providers this extension has issued registerProvider for
    wizard,                   \* the aperture:setup handler's position and locals (setup.ts:258-323)
    fnCall                    \* a pure function applied on its own: [fn, arg, env, out]

vars == <<loaded, config, lastRegisteredProviders, registry, activeModel,
          pending, event, calls, everRouted, wizard, fnCall>>

----------------------------------------------------------------------------
(* Bounds and the finite universe *)

MaxProviders == 2   \* longest provider list a config carries

ProviderOrder == <<"a", "b", "c">>
Providers == {ProviderOrder[i] : i \in 1..Len(ProviderOrder)}

Range(s) == {s[i] : i \in 1..Len(s)}

Pos(p) == CHOOSE i \in 1..Len(ProviderOrder) : ProviderOrder[i] = p

\* duplicate-free provider lists of length <= MaxProviders, listed in ProviderOrder
\* (the loops over a list touch one provider per iteration, so the order of a
\* list does not change what is written)
ProviderLists ==
    {s \in UNION {[1..n -> Providers] : n \in 0..MaxProviders} :
        \A i, j \in 1..Len(s) : i < j => Pos(s[i]) < Pos(s[j])}

GW == <<"g", "w">>
Slash == "/"
V1 == <<"/", "v", "1">>
\* gateway URLs a config can carry: disabled, normalized, hand-written with a trailing slash
Urls == {<<>>, GW, GW \o <<Slash>>}

Configs == [baseUrl : Urls, providers : ProviderLists]

\* src/src/config.ts:20-23
DEFAULT_CONFIG == [baseUrl |-> <<>>, providers |-> <<>>]

\* src/src/index.ts:43
Sentinel == "-"

NoApi == "none"
NoModel == [provider |-> "", id |-> "", api |-> NoApi, reasoning |-> FALSE, baseUrl |-> <<>>]
Absent == [baseUrl |-> <<>>, apiKey |-> "", models |-> <<>>]

\* What other extensions register (shape of src/unnamed/part_002:49-75): a
\* provider-level api tag and model definitions without their own api.
Native ==
    [a |-> [baseUrl |-> <<"n", "a">>, apiKey |-> "KEY_A", api |-> "anthropic-messages",
            models |-> <<[id |-> "m1", api |-> NoApi, reasoning |-> FALSE],
                         [id |-> "m2", api |-> NoApi, reasoning |-> TRUE]>>],
     b |-> [baseUrl |-> <<"n", "b">>, apiKey |-> "KEY_B", api |-> "openai-completions",
            models |-> <<[id |-> "m1", api |-> NoApi, reasoning |-> FALSE]>>]]

----------------------------------------------------------------------------
(* Host registry (boundary operations) *)

Call(op, p, arg) == [op |-> op, p |-> p, arg |-> arg]

\* register/overwrite a provider descriptor by name
registerProvider(reg, name, cfg) ==
    [reg EXCEPT ![name] =
        [baseUrl |-> cfg.baseUrl,
         apiKey |-> cfg.apiKey,
         models |-> [i \in 1..Len(cfg.models) |->
                        [id |-> cfg.models[i].id,
                         api |-> IF cfg.models[i].api # NoApi
                                 THEN cfg.models[i].api ELSE cfg.api,
                         reasoning |-> cfg.models[i].reasoning]]]]

\* remove a provider descriptor by name; a provider this extension never
\* registered is left alone
unregisterProvider(reg, name) ==
    IF reg[name].apiKey = Sentinel THEN [reg EXCEPT ![name] = Absent] ELSE reg

ModelsOfProvider(reg, p) ==
    [i \in 1..Len(reg[p].models) |->
        [provider |-> p,
         id |-> reg[p].models[i].id,
         api |-> reg[p].models[i].api,
         reasoning |-> reg[p].models[i].reasoning,
         baseUrl |-> reg[p].baseUrl]]

RECURSIVE getAllFrom(_, _)
getAllFrom(reg, order) ==
    IF order = <<>> THEN <<>>
    ELSE ModelsOfProvider(reg, Head(order)) \o getAllFrom(reg, Tail(order))

\* enumerate all registered models
getAll(reg) == getAllFrom(reg, ProviderOrder)

\* look up a model by (provider, id)
find(reg, provider, id) ==
    LET Match(m) == m.provider = provider /\ m.id = id
        hits == SelectSeq(getAll(reg), Match)
    IN IF hits = <<>> THEN NoModel ELSE hits[1]

----------------------------------------------------------------------------
(* src/src/index.ts *)

RECURSIVE StripTrailingSlashes(_)
StripTrailingSlashes(s) ==
    IF s # <<>> /\ s[Len(s)] = Slash
    THEN StripTrailingSlashes(SubSeq(s, 1, Len(s) - 1))
    ELSE s

\* mutant: the trailing slashes of the configured URL are kept
resolveBaseUrl_NoStrip(cfg) ==
    IF cfg.baseUrl = <<>> \/ Len(cfg.providers) = 0
    THEN [ok |-> FALSE, url |-> <<>>]
    ELSE [ok |-> TRUE, url |-> cfg.baseUrl \o V1]

resolveBaseUrl(cfg) ==
    IF cfg.baseUrl = <<>> \/ Len(cfg.providers) = 0
    THEN [ok |-> FALSE, url |-> <<>>]
    ELSE [ok |-> TRUE, url |-> StripTrailingSlashes(cfg.baseUrl) \o V1]

\* mutant: the descriptor keeps the endpoint of the models that were read
overrideConfig_ModelUrl(models, baseUrl) ==
    IF Len(models) > 0
    THEN [baseUrl |-> models[1].baseUrl, apiKey |-> Sentinel,
          api |-> models[1].api, models |-> models]
    ELSE [baseUrl |-> baseUrl, apiKey |-> Sentinel, api |-> NoApi, models |-> <<>>]

\* mutant: the descriptor never carries the models that were read
overrideConfig_NoModels(models, baseUrl) ==
    [baseUrl |-> baseUrl, apiKey |-> Sentinel, api |-> NoApi, models |-> <<>>]

overrideConfig(models, baseUrl) ==
    IF Len(models) > 0
    THEN [baseUrl |-> baseUrl, apiKey |-> Sentinel, api |-> models[1].api, models |-> models]
    ELSE [baseUrl |-> baseUrl, apiKey |-> Sentinel, api |-> NoApi, models |-> <<>>]

RECURSIVE overrideProviders(_, _, _, _)
overrideProviders(reg, log, providers, baseUrl) ==
    IF providers = <<>> THEN [registry |-> reg, calls |-> log]
    ELSE LET provider == Head(providers)
             OfProvider(m) == m.provider = provider
             models == SelectSeq(getAll(reg), OfProvider)
             cfg == overrideConfig(models, baseUrl)
         IN overrideProviders(registerProvider(reg, provider, cfg),
                              log \o <<Call("getAll", provider, <<>>),
                                       Call("registerProvider", provider, cfg)>>,
                              Tail(providers), baseUrl)

\* mutant: every provider of the registry is overridden, not the configured ones
applyAperture_AllProviders(cfg, reg) ==
    LET url == resolveBaseUrl(cfg)
    IN IF ~url.ok THEN [registry |-> reg, calls |-> <<>>, overridden |-> <<>>]
       ELSE LET r == overrideProviders(reg, <<>>, ProviderOrder, url.url)
            IN [registry |-> r.registry, calls |-> r.calls, overridden |-> cfg.providers]

applyAperture(cfg, reg) ==
    LET url == resolveBaseUrl(cfg)
    IN IF ~url.ok THEN [registry |-> reg, calls |-> <<>>, overridden |-> <<>>]
       ELSE LET r == overrideProviders(reg, <<>>, cfg.providers, url.url)
            IN [registry |-> r.registry, calls |-> r.calls, overridden |-> cfg.providers]

refreshActiveModel(reg, model) ==
    IF model = NoModel THEN [updated |-> FALSE, model |-> model, calls |-> <<>>]
    ELSE LET updated == find(reg, model.provider, model.id)
         IN IF updated = NoModel
            THEN [updated |-> FALSE, model |-> model,
                  calls |-> <<Call("find", model.provider, model.id)>>]
            ELSE [updated |-> TRUE, model |-> updated,
                  calls |-> <<Call("find", model.provider, model.id),
                              Call("setModel", model.provider, updated)>>]

\* mutant: the remembered list is not filtered against the saved list
removedProviders_NoFilter(last, providers) == last

\* lastRegisteredProviders.filter((p) => !providers.includes(p))
removedProviders(last, providers) ==
    LET Gone(p) == p \notin Range(providers) IN SelectSeq(last, Gone)

RECURSIVE unregisterAll(_, _)
unregisterAll(reg, removed) ==
    IF removed = <<>> THEN reg
    ELSE unregisterAll(unregisterProvider(reg, Head(removed)), Tail(removed))

unregisterCalls(removed) ==
    [i \in 1..Len(removed) |-> Call("unregisterProvider", removed[i], <<>>)]

\* mutant: the active model is re-resolved against the registry as it was
\* before the override writes
beforeAgentStart_StaleRefresh(cfg, reg, model) ==
    LET applied == applyAperture(cfg, reg)
        refresh == IF model # NoModel /\ model.provider \in Range(applied.overridden)
                   THEN refreshActiveModel(reg, model)
                   ELSE [updated |-> FALSE, model |-> model, calls |-> <<>>]
    IN [registry |-> applied.registry,
        model |-> refresh.model,
        calls |-> applied.calls \o refresh.calls]

\* mutant: the active model is re-resolved on every run, routed or not
beforeAgentStart_AlwaysRefresh(cfg, reg, model) ==
    LET applied == applyAperture(cfg, reg)
        refresh == refreshActiveModel(applied.registry, model)
    IN [registry |-> applied.registry,
        model |-> refresh.model,
        calls |-> applied.calls \o refresh.calls]

\* the before_agent_start handler, given a ctx that has a modelRegistry
beforeAgentStart(cfg, reg, model) ==
    LET applied == applyAperture(cfg, reg)
        refresh == IF model # NoModel /\ model.provider \in Range(applied.overridden)
                   THEN refreshActiveModel(applied.registry, model)
                   ELSE [updated |-> FALSE, model |-> model, calls |-> <<>>]
    IN [registry |-> applied.registry,
        model |-> refresh.model,
        calls |-> applied.calls \o refresh.calls]

\* mutant: the handler returns as soon as the override step is a no-op
onSetupComplete_EarlyReturn(cfg, last, reg, model) ==
    LET providers == cfg.providers
        removed == IF resolveBaseUrl(cfg).ok THEN removedProviders(last, providers) ELSE <<>>
        applied == applyAperture(cfg, reg)
        refresh == IF model # NoModel /\ model.provider \in Range(providers)
                   THEN refreshActiveModel(applied.registry, model)
                   ELSE [updated |-> FALSE, model |-> model, calls |-> <<>>]
        notice == IF refresh.updated
                  THEN <<Call("notify", model.provider, "re-routing")>>
                  ELSE <<>>
    IN [registry |-> unregisterAll(applied.registry, removed),
        last |-> providers,
        model |-> refresh.model,
        removed |-> removed,
        calls |-> applied.calls \o refresh.calls \o notice \o unregisterCalls(removed)]

\* mutant: the remembered list is merged with the saved list instead of replaced
onSetupComplete_KeepLast(cfg, last, reg, model) ==
    LET providers == cfg.providers
        removed == removedProviders(last, providers)
        applied == applyAperture(cfg, reg)
        refresh == IF model # NoModel /\ model.provider \in Range(providers)
                   THEN refreshActiveModel(applied.registry, model)
                   ELSE [updated |-> FALSE, model |-> model, calls |-> <<>>]
        notice == IF refresh.updated
                  THEN <<Call("notify", model.provider, "re-routing")>>
                  ELSE <<>>
    IN [registry |-> unregisterAll(applied.registry, removed),
        last |-> last \o removedProviders(providers, last),
        model |-> refresh.model,
        removed |-> removed,
        calls |-> applied.calls \o refresh.calls \o notice \o unregisterCalls(removed)]

\* mutant: the removed providers are computed after the remembered list was assigned
onSetupComplete_DiffAfterAssign(cfg, last, reg, model) ==
    LET providers == cfg.providers
        removed == removedProviders(providers, providers)
        applied == applyAperture(cfg, reg)
        refresh == IF model # NoModel /\ model.provider \in Range(providers)
                   THEN refreshActiveModel(applied.registry, model)
                   ELSE [updated |-> FALSE, model |-> model, calls |-> <<>>]
        notice == IF refresh.updated
                  THEN <<Call("notify", model.provider, "re-routing")>>
                  ELSE <<>>
    IN [registry |-> unregisterAll(applied.registry, removed),
        last |-> providers,
        model |-> refresh.model,
        removed |-> removed,
        calls |-> applied.calls \o refresh.calls \o notice \o unregisterCalls(removed)]

\* mutant: every provider outside the saved list is unregistered, remembered or not
onSetupComplete_ClearOthers(cfg, last, reg, model) ==
    LET providers == cfg.providers
        removed == removedProviders(ProviderOrder, providers)
        applied == applyAperture(cfg, reg)
        refresh == IF model # NoModel /\ model.provider \in Range(providers)
                   THEN refreshActiveModel(applied.registry, model)
                   ELSE [updated |-> FALSE, model |-> model, calls |-> <<>>]
        notice == IF refresh.updated
                  THEN <<Call("notify", model.provider, "re-routing")>>
                  ELSE <<>>
    IN [registry |-> unregisterAll(applied.registry, removed),
        last |-> providers,
        model |-> refresh.model,
        removed |-> removed,
        calls |-> applied.calls \o refresh.calls \o notice \o unregisterCalls(removed)]

onSetupComplete(cfg, last, reg, model) ==
    LET providers == cfg.providers
        removed == removedProviders(last, providers)
        applied == applyAperture(cfg, reg)
        refresh == IF model # NoModel /\ model.provider \in Range(providers)
                   THEN refreshActiveModel(applied.registry, model)
                   ELSE [updated |-> FALSE, model |-> model, calls |-> <<>>]
        notice == IF refresh.updated
                  THEN <<Call("notify", model.provider, "re-routing")>>
                  ELSE <<>>
    IN [registry |-> unregisterAll(applied.registry, removed),
        last |-> providers,
        model |-> refresh.model,
        removed |-> removed,
        calls |-> applied.calls \o refresh.calls \o notice \o unregisterCalls(removed)]

RegisteredIn(log) == {log[i].p : i \in {j \in 1..Len(log) : log[j].op = "registerProvider"}}

----------------------------------------------------------------------------
(* A host that rejects a provider name: registerProvider throws for it *)

\* index of the first provider of the list whose registration is rejected, 0 if none
FirstRejected(providers, rejected) ==
    IF \E i \in 1..Len(providers) : providers[i] \in rejected
    THEN CHOOSE i \in 1..Len(providers) :
             /\ providers[i] \in rejected
             /\ \A j \in 1..(i - 1) : providers[j] \notin rejected
    ELSE 0

\* mutant: the writes made before the rejection are rolled back
overrideProvidersThrowing_Rollback(reg, log, providers, baseUrl, rejected) ==
    LET k == FirstRejected(providers, rejected)
    IN IF k = 0
       THEN LET r == overrideProviders(reg, log, providers, baseUrl)
            IN [registry |-> r.registry, calls |-> r.calls, threw |-> FALSE, at |-> ""]
       ELSE LET r == overrideProviders(reg, log, SubSeq(providers, 1, k - 1), baseUrl)
            IN [registry |-> reg,
                calls |-> r.calls \o <<Call("getAll", providers[k], <<>>),
                                       Call("rejected", providers[k], <<>>)>>,
                threw |-> TRUE, at |-> providers[k]]

\* index.ts:32-47 with a throwing pi.registerProvider: the loop has no
\* try/catch, so it runs as usual up to the rejected provider, whose models
\* are read and whose registration is attempted, and ends there
overrideProvidersThrowing(reg, log, providers, baseUrl, rejected) ==
    LET k == FirstRejected(providers, rejected)
    IN IF k = 0
       THEN LET r == overrideProviders(reg, log, providers, baseUrl)
            IN [registry |-> r.registry, calls |-> r.calls, threw |-> FALSE, at |-> ""]
       ELSE LET r == overrideProviders(reg, log, SubSeq(providers, 1, k - 1), baseUrl)
                provider == providers[k]
                OfProvider(m) == m.provider = provider
                models == SelectSeq(getAll(r.registry), OfProvider)
            IN [registry |-> r.registry,
                calls |-> r.calls \o <<Call("getAll", provider, <<>>),
                                       Call("rejected", provider,
                                            overrideConfig(models, baseUrl))>>,
                threw |-> TRUE, at |-> provider]

\* index.ts:53-63
applyApertureThrowing(cfg, reg, rejected) ==
    LET url == resolveBaseUrl(cfg)
    IN IF ~url.ok
       THEN [registry |-> reg, calls |-> <<>>, overridden |-> <<>>, threw |-> FALSE, at |-> ""]
       ELSE LET r == overrideProvidersThrowing(reg, <<>>, cfg.providers, url.url, rejected)
            IN [registry |-> r.registry, calls |-> r.calls, overridden |-> cfg.providers,
                threw |-> r.threw, at |-> r.at]

\* index.ts:98-120: a throw at line 104 ends the handler before the remembered
\* list is assigned, the active model refreshed and the removed providers
\* unregistered
onSetupCompleteThrowing(cfg, last, reg, model, rejected) ==
    LET applied == applyApertureThrowing(cfg, reg, rejected)
    IN IF applied.threw
       THEN [registry |-> applied.registry, last |-> last, model |-> model,
             removed |-> <<>>, calls |-> applied.calls, threw |-> TRUE, at |-> applied.at]
       ELSE LET r == onSetupComplete(cfg, last, reg, model)
            IN [registry |-> r.registry, last |-> r.last, model |-> r.model,
                removed |-> r.removed, calls |-> r.calls, threw |-> FALSE, at |-> ""]

----------------------------------------------------------------------------
(* src/src/lib/health.ts and src/src/commands/setup.ts: pure parts *)

MaxTokens == 2   \* most path tokens appended to a typed URL

\* the characters String.prototype.trim removes (ECMAScript WhiteSpace and
\* LineTerminator); those a TLA+ string cannot hold are written by code point
\* and stand for one character each
WhiteSpace ==
    {" ", "\t", "\n", "\r", "\f",
     "U+000B", "U+00A0", "U+1680", "U+2000", "U+2001", "U+2002", "U+2003", "U+2004",
     "U+2005", "U+2006", "U+2007", "U+2008", "U+2009", "U+200A", "U+2028", "U+2029",
     "U+202F", "U+205F", "U+3000", "U+FEFF"}
HTTP == <<"h", "t", "t", "p", ":", "/", "/">>
HTTPS == <<"h", "t", "t", "p", "s", ":", "/", "/">>
V1MODELS == <<"/", "v", "1", "/", "m", "o", "d", "e", "l", "s">>

StartsWith(s, prefix) ==
    Len(s) >= Len(prefix) /\ SubSeq(s, 1, Len(prefix)) = prefix

EndsWith(s, suffix) ==
    Len(s) >= Len(suffix) /\ SubSeq(s, Len(s) - Len(suffix) + 1, Len(s)) = suffix

\* String.prototype.trim
RECURSIVE Trim(_)
Trim(s) ==
    IF s = <<>> THEN s
    ELSE IF s[1] \in WhiteSpace THEN Trim(Tail(s))
    ELSE IF s[Len(s)] \in WhiteSpace THEN Trim(SubSeq(s, 1, Len(s) - 1))
    ELSE s

\* replace(/\/v1\/?$/, ""): the one match, if any, ends at the end of the string
StripV1(s) ==
    IF EndsWith(s, V1 \o <<Slash>>) THEN SubSeq(s, 1, Len(s) - 4)
    ELSE IF EndsWith(s, V1) THEN SubSeq(s, 1, Len(s) - 3)
    ELSE s

\* mutant: the /v1 suffix is kept
normalizeUrl_KeepV1(url) ==
    LET result == Trim(url)
    IN IF result = <<>> THEN result
       ELSE StripTrailingSlashes(
                IF ~StartsWith(result, HTTP) /\ ~StartsWith(result, HTTPS)
                THEN HTTP \o result ELSE result)

\* setup.ts:21-28
normalizeUrl(url) ==
    LET result == Trim(url)
    IN IF result = <<>> THEN result
       ELSE StripTrailingSlashes(StripV1(
                IF ~StartsWith(result, HTTP) /\ ~StartsWith(result, HTTPS)
                THEN HTTP \o result ELSE result))

\* what the single fetch can do: resolve with a response, or reject
Statuses == {200, 204, 299, 301, 404, 500}
StatusText(n) ==
    CASE n = 200 -> "OK" [] n = 204 -> "No Content" [] n = 301 -> "Moved Permanently"
      [] n = 404 -> "Not Found" [] n = 500 -> "Internal Server Error" [] OTHER -> ""
FetchOutcomes ==
    {[kind |-> "response", status |-> n, isError |-> FALSE, text |-> StatusText(n)] :
        n \in Statuses}
    \cup {[kind |-> "network", status |-> 0, isError |-> TRUE, text |-> "fetch failed"],
          [kind |-> "timeout", status |-> 0, isError |-> TRUE,
           text |-> "The operation was aborted due to timeout"],
          [kind |-> "thrown", status |-> 0, isError |-> FALSE, text |-> "aborted"]}

\* Response.ok
ResOk(res) == res.status \in 200..299

\* mutant: no catch around the fetch
checkApertureHealth_NoCatch(baseUrl, outcome) ==
    LET url == StripTrailingSlashes(baseUrl) \o V1MODELS
    IN IF outcome.kind = "response"
       THEN IF ~ResOk(outcome)
            THEN [threw |-> FALSE, url |-> url, ok |-> FALSE,
                  error |-> <<"HTTP", ToString(outcome.status), outcome.text>>]
            ELSE [threw |-> FALSE, url |-> url, ok |-> TRUE, error |-> <<>>]
       ELSE [threw |-> TRUE, url |-> url, ok |-> FALSE, error |-> <<>>]

\* health.ts:13-28; `threw` tells a rejected promise from a returned value,
\* `url` is the address the GET went to
checkApertureHealth(baseUrl, outcome) ==
    LET url == StripTrailingSlashes(baseUrl) \o V1MODELS
    IN IF outcome.kind = "response"
       THEN IF ~ResOk(outcome)
            THEN [threw |-> FALSE, url |-> url, ok |-> FALSE,
                  error |-> <<"HTTP", ToString(outcome.status), outcome.text>>]
            ELSE [threw |-> FALSE, url |-> url, ok |-> TRUE, error |-> <<>>]
       ELSE \* catch: e.message for an Error, String(e) otherwise
            [threw |-> FALSE, url |-> url, ok |-> FALSE, error |-> <<outcome.text>>]

\* strings a user can type at the URL prompt: padding, scheme, host, path tokens
Pads == {<<>>, <<" ">>, <<"\n">>, <<"U+00A0">>}
Schemes == {<<>>, HTTP, HTTPS, <<"h", "t", "t", "p", ":", "/">>}
Hosts == {<<>>, GW}
Tokens == {<<Slash>>, V1, <<"v", "1">>}
RECURSIVE TokenPaths(_)
TokenPaths(n) ==
    IF n = 0 THEN {<<>>}
    ELSE LET shorter == TokenPaths(n - 1)
         IN shorter \cup {p \o t : p \in shorter, t \in Tokens}
RawInputs ==
    {l \o s \o h \o p \o t :
        l \in Pads, s \in Schemes, h \in Hosts, p \in TokenPaths(MaxTokens), t \in Pads}

NotApplied == [fn |-> "none", arg |-> <<>>, env |-> CHOOSE o \in FetchOutcomes : TRUE,
               out |-> <<>>]

\* the wizard's locals before the handler runs (setup.ts:258-272)
Undefined == <<"undefined">>
NoResult == [threw |-> FALSE, url |-> <<>>, ok |-> FALSE, error |-> <<>>]
WizardIdle ==
    [pc |-> "idle", config |-> DEFAULT_CONFIG, baseUrl |-> Undefined,
     urlToCheck |-> <<>>, spinner |-> "none", result |-> NoResult,
     known |-> <<>>, selected |-> <<>>]

----------------------------------------------------------------------------
(* Actions *)

Init ==
    /\ loaded = FALSE
    /\ config = DEFAULT_CONFIG
    /\ lastRegisteredProviders = <<>>
    /\ registry = [p \in Providers |-> Absent]
    /\ activeModel = NoModel
    /\ pending = FALSE
    /\ event = "init"
    /\ calls = <<>>
    /\ everRouted = {}
    /\ wizard = WizardIdle
    /\ fnCall = NotApplied

\* mutant: the eager load-time write of the earlier revision (index.ts:148-160):
\* every configured provider is registered at load, without reading its models
Load_Eager ==
    /\ ~loaded
    /\ \E c \in Configs :
        LET url == resolveBaseUrl(c)
            cfg == [baseUrl |-> url.url, apiKey |-> Sentinel, api |-> NoApi, models |-> <<>>]
            written == IF url.ok THEN Range(c.providers) ELSE {}
        IN /\ config' = c
           /\ lastRegisteredProviders' = c.providers
           /\ registry' = [p \in Providers |->
                             IF p \in written
                             THEN registerProvider(registry, p, cfg)[p]
                             ELSE registry[p]]
           /\ calls' = IF url.ok
                       THEN [i \in 1..Len(c.providers) |->
                               Call("registerProvider", c.providers[i], cfg)]
                       ELSE <<>>
           /\ everRouted' = written
    /\ loaded' = TRUE
    /\ event' = "load"
    /\ UNCHANGED <<activeModel, pending>>
    /\ UNCHANGED <<wizard, fnCall>>

\* mutant: the remembered list starts empty instead of being seeded from the config
Load_NoSeed ==
    /\ ~loaded
    /\ \E c \in Configs :
        /\ config' = c
        /\ lastRegisteredProviders' = <<>>
    /\ loaded' = TRUE
    /\ event' = "load"
    /\ calls' = <<>>
    /\ UNCHANGED <<registry, activeModel, pending, everRouted>>
    /\ UNCHANGED <<wizard, fnCall>>

\* default export: load the persisted config and seed lastRegisteredProviders
Load ==
    /\ ~loaded
    /\ \E c \in Configs :
        /\ config' = c
        /\ lastRegisteredProviders' = c.providers
    /\ loaded' = TRUE
    /\ event' = "load"
    /\ calls' = <<>>
    /\ UNCHANGED <<registry, activeModel, pending, everRouted>>
    /\ UNCHANGED <<wizard, fnCall>>

\* another extension (re-)registers one of its providers with its native endpoint
OtherRegister ==
    /\ \E p \in DOMAIN Native : registry' = registerProvider(registry, p, Native[p])
    /\ event' = "other"
    /\ calls' = <<>>
    /\ UNCHANGED <<loaded, config, lastRegisteredProviders, activeModel, pending, everRouted>>
    /\ UNCHANGED <<wizard, fnCall>>

\* the host selects an active model: a value snapshot of a registry entry
SelectModel ==
    /\ \E i \in 1..Len(getAll(registry)) : activeModel' = getAll(registry)[i]
    /\ event' = "select"
    /\ calls' = <<>>
    /\ UNCHANGED <<loaded, config, lastRegisteredProviders, registry, pending, everRouted>>
    /\ UNCHANGED <<wizard, fnCall>>

BeforeAgentStart ==
    /\ loaded
    /\ \E hasRegistry \in BOOLEAN :
        IF ~hasRegistry
        THEN /\ calls' = <<>>
             /\ event' = "bas-noctx"
             /\ UNCHANGED <<registry, activeModel, everRouted>>
        ELSE LET r == beforeAgentStart(config, registry, activeModel)
             IN /\ registry' = r.registry
                /\ activeModel' = r.model
                /\ calls' = r.calls
                /\ event' = "bas"
                /\ everRouted' = everRouted \cup RegisteredIn(r.calls)
    /\ UNCHANGED <<loaded, config, lastRegisteredProviders, pending>>
    /\ UNCHANGED <<wizard, fnCall>>

\* setup.ts:317 / settings save: the new config is committed
ConfigSave ==
    /\ loaded
    /\ ~pending
    /\ \E c \in Configs : config' = c
    /\ pending' = TRUE
    /\ event' = "save"
    /\ calls' = <<>>
    /\ UNCHANGED <<loaded, lastRegisteredProviders, registry, activeModel, everRouted>>
    /\ UNCHANGED <<wizard, fnCall>>

\* setup.ts:318-322: onConfigChange(ctx), then the "Aperture configured" notice
OnSetupComplete ==
    /\ pending
    /\ LET r == onSetupComplete(config, lastRegisteredProviders, registry, activeModel)
       IN /\ registry' = r.registry
          /\ lastRegisteredProviders' = r.last
          /\ activeModel' = r.model
          /\ calls' = r.calls \o <<Call("notify", "", "configured")>>
          /\ everRouted' = everRouted \cup RegisteredIn(r.calls)
    /\ pending' = FALSE
    /\ event' = "setup"
    /\ wizard' = IF wizard.pc = "saving" THEN WizardIdle ELSE wizard
    /\ UNCHANGED <<loaded, config, fnCall>>

Next ==
    \/ Load
    \/ OtherRegister
    \/ SelectModel
    \/ BeforeAgentStart
    \/ ConfigSave
    \/ OnSetupComplete

Spec == Init /\ [][Next]_vars

----------------------------------------------------------------------------
(* The pure functions of setup.ts and health.ts, applied to drawn inputs *)

InitPure ==
    /\ loaded = FALSE
    /\ config = DEFAULT_CONFIG
    /\ lastRegisteredProviders = <<>>
    /\ registry = [p \in Providers |-> Absent]
    /\ activeModel = NoModel
    /\ pending = FALSE
    /\ event = "init"
    /\ calls = <<>>
    /\ everRouted = {}
    /\ wizard = WizardIdle
    /\ \E i \in RawInputs, o \in FetchOutcomes :
           fnCall = [fn |-> "none", arg |-> i, env |-> o, out |-> <<>>]

\* setup.ts:21-28 applied to the drawn string
NormalizeUrl ==
    /\ fnCall.fn = "none"
    /\ fnCall' = [fnCall EXCEPT !.fn = "normalizeUrl", !.out = normalizeUrl(fnCall.arg)]
    /\ event' = "apply"
    /\ UNCHANGED <<loaded, config, lastRegisteredProviders, registry, activeModel,
                   pending, calls, everRouted, wizard>>

\* health.ts:13-28 applied to the drawn string, the fetch ending as drawn
CheckApertureHealth ==
    /\ fnCall.fn = "none"
    /\ fnCall' = [fnCall EXCEPT !.fn = "checkApertureHealth",
                                !.out = checkApertureHealth(fnCall.arg, fnCall.env)]
    /\ event' = "apply"
    /\ UNCHANGED <<loaded, config, lastRegisteredProviders, registry, activeModel,
                   pending, calls, everRouted, wizard>>

NextPure ==
    \/ NormalizeUrl
    \/ CheckApertureHealth

SpecPure == InitPure /\ [][NextPure]_vars

----------------------------------------------------------------------------
(* The aperture:setup wizard (src/src/commands/setup.ts:252-325) *)

\* what the user submits at the URL prompt besides the prefilled value
TypedUrls ==
    {<<" ">>, GW, GW \o V1 \o <<Slash>>, GW \o V1 \o <<Slash, Slash>>}

Keys == {"enter", "escape", "other"}

\* setup.ts:299-301: the providers of the enumerated models, unique and sorted
knownProviders(reg) ==
    SelectSeq(ProviderOrder, LAMBDA p : \E i \in 1..Len(getAll(reg)) : getAll(reg)[i].provider = p)

\* setup.ts:195: new Set(preselected) keeps the first occurrence of each name,
\* in order
RECURSIVE SetOf(_)
SetOf(list) ==
    IF list = <<>> THEN <<>>
    ELSE LET rest == SetOf(SubSeq(list, 1, Len(list) - 1))
             p == list[Len(list)]
         IN IF p \in Range(rest) THEN rest ELSE Append(rest, p)

\* setup.ts:203-209: a Set keeps insertion order
Toggle(selected, value) ==
    IF value \in Range(selected)
    THEN SelectSeq(selected, LAMBDA p : p # value)
    ELSE Append(selected, value)

\* setup.ts:259-265: no UI, the handler reports and returns
WizardNoUI ==
    /\ loaded /\ ~pending /\ wizard.pc = "idle"
    /\ calls' = <<Call("notify", "", "requires-terminal")>>
    /\ event' = "wizard-noui"
    /\ UNCHANGED <<loaded, config, lastRegisteredProviders, registry, activeModel,
                   pending, everRouted, wizard, fnCall>>

\* setup.ts:267-282: the config is read and the URL prompt is shown (when the
\* handler returns its locals are gone: wizard is WizardIdle again)
WizardStart ==
    /\ loaded /\ ~pending /\ wizard.pc = "idle"
    /\ wizard' = [WizardIdle EXCEPT !.pc = "url", !.config = config]
    /\ calls' = <<>>
    /\ event' = "wizard-start"
    /\ UNCHANGED <<loaded, config, lastRegisteredProviders, registry, activeModel,
                   pending, everRouted, fnCall>>

\* setup.ts:147-151 then 284-291: Enter at the URL prompt; a blank value is
\* refused, anything else is normalized and handed to a new HealthCheckSpinner
UrlSubmit ==
    /\ wizard.pc = "url"
    /\ LET prefill == IF wizard.baseUrl # Undefined THEN wizard.baseUrl
                      ELSE wizard.config.baseUrl
       IN \E typed \in TypedUrls \cup {prefill} :
              LET value == Trim(typed)
              IN IF value = <<>>
                 THEN /\ event' = "wizard-url-blank"
                      /\ UNCHANGED wizard
                 ELSE IF normalizeUrl(value) = <<>>
                 THEN /\ event' = "wizard-url-empty"
                      /\ wizard' = WizardIdle
                 ELSE /\ event' = "wizard-url"
                      /\ wizard' = [wizard EXCEPT !.pc = "probing",
                                                  !.baseUrl = normalizeUrl(value),
                                                  !.urlToCheck = normalizeUrl(value),
                                                  !.spinner = "inflight",
                                                  !.result = NoResult]
    /\ calls' = <<>>
    /\ UNCHANGED <<loaded, config, lastRegisteredProviders, registry, activeModel,
                   pending, everRouted, fnCall>>

\* setup.ts:152-154 then 284: Esc at the URL prompt
UrlEscape ==
    /\ wizard.pc = "url"
    /\ wizard' = WizardIdle
    /\ calls' = <<>>
    /\ event' = "wizard-esc-url"
    /\ UNCHANGED <<loaded, config, lastRegisteredProviders, registry, activeModel,
                   pending, everRouted, fnCall>>

\* setup.ts:65-75: the health check started by the constructor settles
ProbeSettles ==
    /\ wizard.pc = "probing" /\ wizard.spinner = "inflight"
    /\ \E outcome \in FetchOutcomes :
           wizard' = [wizard EXCEPT !.spinner = "settled",
                                    !.result = checkApertureHealth(wizard.urlToCheck, outcome)]
    /\ calls' = <<>>
    /\ event' = "wizard-probe"
    /\ UNCHANGED <<loaded, config, lastRegisteredProviders, registry, activeModel,
                   pending, everRouted, fnCall>>

\* setup.ts:72-74 then 293-312: the 600 ms timer after a healthy check; the
\* provider selection opens with the config's providers preselected
SpinnerAdvance ==
    /\ wizard.pc = "probing" /\ wizard.spinner = "settled" /\ wizard.result.ok
    /\ wizard' = [wizard EXCEPT !.pc = "select",
                                !.known = knownProviders(registry),
                                !.selected = SetOf(wizard.config.providers)]
    /\ calls' = <<Call("getAll", "", <<>>)>>
    /\ event' = "wizard-connected"
    /\ UNCHANGED <<loaded, config, lastRegisteredProviders, registry, activeModel,
                   pending, everRouted, fnCall>>

\* mutant: Enter after a failed check goes on to the provider selection
SpinnerInput_ForceOn ==
    /\ wizard.pc = "probing"
    /\ \E key \in Keys :
           IF wizard.spinner = "inflight" \/ wizard.result.ok \/ key = "other"
           THEN /\ event' = IF key = "escape" THEN "wizard-esc-ignored" ELSE "wizard-ignored"
                /\ UNCHANGED wizard
           ELSE IF key = "enter"
           THEN /\ event' = "wizard-retry"
                /\ wizard' = [wizard EXCEPT !.pc = "select",
                                            !.known = knownProviders(registry),
                                            !.selected = SetOf(wizard.config.providers)]
           ELSE /\ event' = "wizard-esc-failed"
                /\ wizard' = WizardIdle
    /\ calls' = <<>>
    /\ UNCHANGED <<loaded, config, lastRegisteredProviders, registry, activeModel,
                   pending, everRouted, fnCall>>

\* setup.ts:110-119 then 293-295: a key while the spinner is shown; only after a
\* failed check is it handled: Enter re-opens the URL prompt, Esc ends the wizard
SpinnerInput ==
    /\ wizard.pc = "probing"
    /\ \E key \in Keys :
           IF wizard.spinner = "inflight" \/ wizard.result.ok \/ key = "other"
           THEN /\ event' = IF key = "escape" THEN "wizard-esc-ignored" ELSE "wizard-ignored"
                /\ UNCHANGED wizard
           ELSE IF key = "enter"
           THEN /\ event' = "wizard-retry"
                /\ wizard' = [wizard EXCEPT !.pc = "url", !.spinner = "none",
                                            !.result = NoResult]
           ELSE /\ event' = "wizard-esc-failed"
                /\ wizard' = WizardIdle
    /\ calls' = <<>>
    /\ UNCHANGED <<loaded, config, lastRegisteredProviders, registry, activeModel,
                   pending, everRouted, fnCall>>

\* setup.ts:203-209: Enter on a listed provider toggles it
SelectToggle ==
    /\ wizard.pc = "select"
    /\ \E value \in Range(wizard.known) :
           wizard' = [wizard EXCEPT !.selected = Toggle(wizard.selected, value)]
    /\ calls' = <<>>
    /\ event' = "wizard-toggle"
    /\ UNCHANGED <<loaded, config, lastRegisteredProviders, registry, activeModel,
                   pending, everRouted, fnCall>>

\* mutant: Esc at the provider selection saves what was entered so far
SelectEscape_Saves ==
    /\ wizard.pc = "select"
    /\ config' = [baseUrl |-> wizard.baseUrl, providers |-> wizard.selected]
    /\ wizard' = WizardIdle
    /\ calls' = <<>>
    /\ event' = "wizard-esc-select"
    /\ UNCHANGED <<loaded, lastRegisteredProviders, registry, activeModel,
                   pending, everRouted, fnCall>>

\* setup.ts:210-212 then 314: Esc at the provider selection
SelectEscape ==
    /\ wizard.pc = "select"
    /\ UNCHANGED config
    /\ wizard' = WizardIdle
    /\ calls' = <<>>
    /\ event' = "wizard-esc-select"
    /\ UNCHANGED <<loaded, lastRegisteredProviders, registry, activeModel,
                   pending, everRouted, fnCall>>

\* setup.ts:243-247 then 314-317: Ctrl+S confirms the selection and the handler
\* starts configLoader.save and waits for it; the config is not changed yet
SelectConfirm ==
    /\ wizard.pc = "select"
    /\ wizard' = [wizard EXCEPT !.pc = "saving"]
    /\ calls' = <<>>
    /\ event' = "wizard-confirm"
    /\ UNCHANGED <<loaded, config, lastRegisteredProviders, registry, activeModel,
                   pending, everRouted, fnCall>>

\* setup.ts:317: the save rejects; the await throws, the handler ends, and
\* lines 318-322 are not reached
SaveRejects ==
    /\ wizard.pc = "saving" /\ ~pending
    /\ wizard' = WizardIdle
    /\ calls' = <<>>
    /\ event' = "wizard-save-failed"
    /\ UNCHANGED <<loaded, config, lastRegisteredProviders, registry, activeModel,
                   pending, everRouted, fnCall>>

\* mutant: onConfigChange is scheduled without the config having been saved
SaveResolves_NoSave ==
    /\ wizard.pc = "saving" /\ ~pending
    /\ config' = config
    /\ pending' = TRUE
    /\ calls' = <<>>
    /\ event' = "wizard-save"
    /\ UNCHANGED <<loaded, lastRegisteredProviders, registry, activeModel,
                   everRouted, wizard, fnCall>>

\* setup.ts:317: the save has written the file and getConfig() returns the
\* saved pair; onConfigChange and the notice follow as OnSetupComplete
SaveResolves ==
    /\ wizard.pc = "saving" /\ ~pending
    /\ config' = [baseUrl |-> wizard.baseUrl, providers |-> wizard.selected]
    /\ pending' = TRUE
    /\ calls' = <<>>
    /\ event' = "wizard-save"
    /\ UNCHANGED <<loaded, lastRegisteredProviders, registry, activeModel,
                   everRouted, wizard, fnCall>>

NextWizard ==
    \/ Load
    \/ OtherRegister
    \/ SelectModel
    \/ WizardNoUI
    \/ WizardStart
    \/ UrlSubmit
    \/ UrlEscape
    \/ ProbeSettles
    \/ SpinnerAdvance
    \/ SpinnerInput
    \/ SelectToggle
    \/ SelectEscape
    \/ SelectConfirm
    \/ SaveResolves
    \/ SaveRejects
    \/ OnSetupComplete

SpecWizard == Init /\ [][NextWizard]_vars

----------------------------------------------------------------------------
(* before_agent_start events at the wizard's suspension points *)

\* the wizard's steps with before_agent_start events between any two of them
\* (the awaits of setup.ts:274, 287, 303 and 317)
NextInterleave ==
    \/ Load
    \/ OtherRegister
    \/ SelectModel
    \/ BeforeAgentStart
    \/ WizardNoUI
    \/ WizardStart
    \/ UrlSubmit
    \/ UrlEscape
    \/ ProbeSettles
    \/ SpinnerAdvance
    \/ SpinnerInput
    \/ SelectToggle
    \/ SelectEscape
    \/ SelectConfirm
    \/ SaveResolves
    \/ SaveRejects
    \/ OnSetupComplete

SpecInterleave == Init /\ [][NextInterleave]_vars

----------------------------------------------------------------------------
(* The save handler against a host that rejects a provider name *)

\* setup.ts:318 with index.ts:98-120: pi.registerProvider throws for the name
\* `bad` during onConfigChange(ctx); the notice at setup.ts:319 is not reached
OnSetupCompleteRejecting ==
    /\ pending
    /\ \E bad \in Providers :
        LET r == onSetupCompleteThrowing(config, lastRegisteredProviders, registry,
                                         activeModel, {bad})
        IN /\ r.threw
           /\ registry' = r.registry
           /\ lastRegisteredProviders' = r.last
           /\ activeModel' = r.model
           /\ calls' = r.calls
           /\ everRouted' = everRouted \cup RegisteredIn(r.calls)
    /\ pending' = FALSE
    /\ event' = "setup-throw"
    /\ wizard' = IF wizard.pc = "saving" THEN WizardIdle ELSE wizard
    /\ UNCHANGED <<loaded, config, fnCall>>

NextReject ==
    \/ Load
    \/ OtherRegister
    \/ ConfigSave
    \/ OnSetupComplete
    \/ OnSetupCompleteRejecting

SpecReject == Init /\ [][NextReject]_vars

----------------------------------------------------------------------------
(* Properties *)

IsHandlerStep == event' \in {"bas", "setup"}

CallIdx(log, op) == {i \in 1..Len(log) : log[i].op = op}
CallsTo(log, op) == {log[i].p : i \in CallIdx(log, op)}
CallCount(log, op, p) == Cardinality({i \in CallIdx(log, op) : log[i].p = p})

Routed(reg, p) == reg[p].apiKey = Sentinel

\* C1: a routing write to a provider that had models carries those models, and
\* the provider's model list (ids, api tags, metadata) is the same after the
\* handler as before it.
C1_MetadataPreserved ==
    [][IsHandlerStep =>
        \A i \in CallIdx(calls', "registerProvider") :
            LET P == calls'[i].p
            IN registry[P].models # <<>> =>
                /\ Len(calls'[i].arg.models) = Len(registry[P].models)
                /\ calls'[i].arg.api = registry[P].models[1].api
                /\ registry'[P].models = registry[P].models]_vars

C1_Witness ==
    /\ event = "bas"
    /\ "a" \in CallsTo(calls, "registerProvider")
    /\ Routed(registry, "a")
    /\ Len(registry["a"].models) = 2
    /\ registry["a"].models[1].api = "anthropic-messages"
    /\ registry["a"].models[2].reasoning = TRUE

\* the characters of u after position n are all slashes
OnlySlashesAfter(u, n) == \A i \in (n + 1)..Len(u) : u[i] = Slash

\* b is u with its trailing slashes removed, followed by "/v1"
IsGatewayBase(b, u) ==
    LET n == Len(b) - 3
    IN /\ n >= 0
       /\ n <= Len(u)
       /\ SubSeq(b, n + 1, n + 3) = V1
       /\ SubSeq(b, 1, n) = SubSeq(u, 1, n)
       /\ (n > 0 => b[n] # Slash)
       /\ OnlySlashesAfter(u, n)

RoutingApplied == IsHandlerStep /\ config.baseUrl # <<>> /\ config.providers # <<>>

\* C2 (as stated): after routing is applied with a non-empty URL U and a non-empty
\* provider list, every configured provider has baseUrl U + "/v1" and apiKey "-".
C2_Original ==
    [][RoutingApplied =>
        \A P \in Range(config.providers) :
            /\ registry'[P].baseUrl = config.baseUrl \o V1
            /\ registry'[P].apiKey = Sentinel]_vars

\* C2 (amended): after routing is applied with a non-empty URL U and a non-empty
\* provider list, every configured provider has apiKey "-" and a baseUrl that is
\* U without its trailing slashes, followed by "/v1".
C2_RoutedDescriptor ==
    [][RoutingApplied =>
        \A P \in Range(config.providers) :
            /\ IsGatewayBase(registry'[P].baseUrl, config.baseUrl)
            /\ registry'[P].apiKey = Sentinel]_vars

C2_Witness ==
    /\ event = "setup"
    /\ config.baseUrl = GW \o <<Slash>>
    /\ config.providers = <<"a", "b">>
    /\ registry["a"].baseUrl = GW \o V1
    /\ registry["b"].baseUrl = GW \o V1
    /\ Routed(registry, "a") /\ Routed(registry, "b")

\* C3: a save handler unregisters exactly the providers of the remembered list
\* that are missing from the saved list, each once, leaves none of them routed,
\* and the remembered list becomes the saved list (so {A,B} then {B} removes A
\* once, and a further save of {B} removes nothing).
C3_RemovalConvergence ==
    [][event' = "setup" =>
        /\ \A p \in Providers :
              /\ CallCount(calls', "unregisterProvider", p)
                   = IF p \in Range(lastRegisteredProviders) \ Range(config.providers)
                     THEN 1 ELSE 0
              /\ (p \in CallsTo(calls', "unregisterProvider") => ~Routed(registry', p))
        /\ lastRegisteredProviders' = config.providers]_vars

C3_Witness ==
    /\ event = "setup"
    /\ config = [baseUrl |-> GW, providers |-> <<"b">>]
    /\ lastRegisteredProviders = <<"b">>
    /\ CallCount(calls, "unregisterProvider", "a") = 1
    /\ {"a", "b"} \subseteq everRouted
    /\ registry["a"] = Absent
    /\ Routed(registry, "b")

\* C4: a save handler that runs with a non-empty URL and an empty provider list
\* leaves no provider routed through the gateway, although it writes nothing.
C4_DeselectAll ==
    [][(event' = "setup" /\ config.baseUrl # <<>> /\ config.providers = <<>>) =>
        /\ \A P \in Providers : ~Routed(registry', P)
        /\ CallsTo(calls', "registerProvider") = {}]_vars

C4_Witness ==
    /\ event = "setup"
    /\ config = [baseUrl |-> GW, providers |-> <<>>]
    /\ "a" \in everRouted
    /\ "a" \in CallsTo(calls, "unregisterProvider")
    /\ registry["a"] = Absent

RegistryOps == {"getAll", "find", "registerProvider", "unregisterProvider"}

\* C5: with an empty gateway URL, a handler makes no registry call at all (no
\* read, no register, no unregister), whatever was applied before.
C5_NoOpGuard ==
    [][(IsHandlerStep /\ config.baseUrl = <<>>) =>
        \A i \in 1..Len(calls') : calls'[i].op \notin RegistryOps]_vars


\* C6: a handler reads, writes or removes only providers that are named in the
\* current config or that this extension has routed before.
C6_Untouched ==
    [][IsHandlerStep =>
        \A i \in 1..Len(calls') :
            calls'[i].op \in RegistryOps =>
                calls'[i].p \in Range(config.providers) \cup everRouted]_vars

\* C7: loading issues no registry call; registerProvider (and the read before
\* it) is issued only for names of the config's provider list; a
\* before_agent_start handler leaves the descriptor and models of every provider
\* outside that list exactly as they were.
C7_NonTargetedUntouched ==
    [][/\ (event' = "load" => registry' = registry /\ calls' = <<>>)
       /\ (IsHandlerStep =>
              /\ CallsTo(calls', "registerProvider") \subseteq Range(config.providers)
              /\ CallsTo(calls', "getAll") \subseteq Range(config.providers))
       /\ (event' = "bas" =>
              \A Q \in Providers \ Range(config.providers) :
                  registry'[Q] = registry[Q])]_vars

C7_Witness ==
    /\ event = "bas"
    /\ config = [baseUrl |-> GW, providers |-> <<"a">>]
    /\ Routed(registry, "a")
    /\ registry["b"].baseUrl = Native["b"].baseUrl
    /\ registry["b"].apiKey = Native["b"].apiKey
    /\ Len(registry["b"].models) = 1

\* C8: from every state the extension can be in, applying routing a second time
\* directly after a first application with the same config leaves the registry
\* as the first application left it, and the second application removes
\* nothing; a repeated handler also leaves the active model as it was.  (A save
\* handler that is still owed for a just-saved config performs that save's
\* removals even if a before_agent_start ran first: that pair is the first
\* reconciliation of the config, not a repetition.)
C8_Idempotent ==
    loaded =>
        LET s1 == onSetupComplete(config, lastRegisteredProviders, registry, activeModel)
            s2 == onSetupComplete(config, s1.last, s1.registry, s1.model)
            sb == beforeAgentStart(config, s1.registry, s1.model)
            b1 == beforeAgentStart(config, registry, activeModel)
            b2 == beforeAgentStart(config, b1.registry, b1.model)
            bs == onSetupComplete(config, lastRegisteredProviders, b1.registry, b1.model)
        IN /\ s2.registry = s1.registry /\ s2.model = s1.model
           /\ s2.removed = <<>> /\ s2.last = s1.last
           /\ sb.registry = s1.registry
           /\ b2.registry = b1.registry /\ b2.model = b1.model
           /\ (~pending => bs.registry = b1.registry /\ bs.removed = <<>>)

C8_Witness ==
    /\ event = "setup"
    /\ config = [baseUrl |-> GW, providers |-> <<"a", "b">>]
    /\ "c" \in CallsTo(calls, "unregisterProvider")
    /\ Routed(registry, "a") /\ Len(registry["a"].models) = 2
    /\ Routed(registry, "b")
    /\ activeModel.provider = "a" /\ activeModel.baseUrl = GW \o V1
    /\ onSetupComplete(config, lastRegisteredProviders, registry, activeModel).registry
         = registry

HasModel(reg, p, id) == \E i \in 1..Len(reg[p].models) : reg[p].models[i].id = id

\* C9: every model handed to setModel is the registry's entry for the active
\* model's (provider, id) as the registry stands after the handler's writes, and
\* it becomes the active model; when routing is applied to the active model's
\* provider and the model is registered, setModel is called and the new active
\* model points at the gateway.
C9_ActiveModelReResolved ==
    [][IsHandlerStep =>
        /\ \A i \in CallIdx(calls', "setModel") :
              /\ calls'[i].arg = find(registry', activeModel.provider, activeModel.id)
              /\ calls'[i].arg.baseUrl = registry'[activeModel.provider].baseUrl
              /\ activeModel' = calls'[i].arg
        /\ ((/\ activeModel # NoModel
             /\ config.baseUrl # <<>>
             /\ activeModel.provider \in Range(config.providers)
             /\ HasModel(registry, activeModel.provider, activeModel.id)) =>
               /\ Cardinality(CallIdx(calls', "setModel")) = 1
               /\ IsGatewayBase(activeModel'.baseUrl, config.baseUrl)
               /\ activeModel'.id = activeModel.id
               /\ activeModel'.provider = activeModel.provider)]_vars

C9_Witness ==
    /\ event = "bas"
    /\ "a" \in CallsTo(calls, "registerProvider")
    /\ "a" \in CallsTo(calls, "setModel")
    /\ activeModel.provider = "a"
    /\ activeModel.id = "m2"
    /\ activeModel.baseUrl = GW \o V1

\* C10: on every save, each provider that was remembered as routed and is not in
\* the saved list gets a user-facing removal notice.
C10_RemovalNotice ==
    [][event' = "setup" =>
        \A p \in Range(lastRegisteredProviders) \ Range(config.providers) :
            \E i \in CallIdx(calls', "notify") :
                calls'[i].p = p /\ calls'[i].arg = "removed"]_vars

----------------------------------------------------------------------------
(* Re-application, deferred registration, no-op starts *)

NativelyRegistered(reg, P) ==
    /\ P \in DOMAIN Native
    /\ reg[P].apiKey = Native[P].apiKey
    /\ reg[P].baseUrl = Native[P].baseUrl

\* C11 (as stated): when a before_agent_start handler completes with a non-empty
\* gateway URL U, every configured provider that another plugin had registered
\* with its native endpoint has baseUrl U + "/v1", apiKey "-" and the models the
\* other plugin registered.
C11_Original ==
    [][(event' = "bas" /\ config.baseUrl # <<>>) =>
        \A P \in Range(config.providers) :
            NativelyRegistered(registry, P) =>
                /\ registry'[P].baseUrl = config.baseUrl \o V1
                /\ registry'[P].apiKey = Sentinel
                /\ registry'[P].models = registry[P].models]_vars

\* C11 (amended): as above, with baseUrl equal to U without its trailing
\* slashes, followed by "/v1".
C11_Reapplied ==
    [][(event' = "bas" /\ config.baseUrl # <<>>) =>
        \A P \in Range(config.providers) :
            NativelyRegistered(registry, P) =>
                /\ IsGatewayBase(registry'[P].baseUrl, config.baseUrl)
                /\ registry'[P].apiKey = Sentinel
                /\ registry'[P].models = registry[P].models]_vars

\* the handler has just overridden "a", whose models it read at the native endpoint
C11_Witness ==
    /\ event = "bas"
    /\ \E i \in CallIdx(calls, "registerProvider") :
          /\ calls[i].p = "a"
          /\ Len(calls[i].arg.models) = 2
          /\ calls[i].arg.models[1].baseUrl = Native["a"].baseUrl
    /\ registry["a"].baseUrl = GW \o V1
    /\ Routed(registry, "a")
    /\ Len(registry["a"].models) = 2

\* C12: loading issues no host call and leaves the registry as it is; every
\* registerProvider call, and every step that turns a provider into a routed
\* one, belongs to a before_agent_start or a save handler.
C12_DeferredRegistration ==
    [][/\ (event' = "load" =>
              /\ calls' = <<>>
              /\ registry' = registry
              /\ everRouted' = {})
       /\ \A p \in Providers :
              (\/ p \in CallsTo(calls', "registerProvider")
               \/ (Routed(registry', p) /\ ~Routed(registry, p))
               \/ (p \in everRouted' /\ p \notin everRouted))
                  => IsHandlerStep]_vars

\* the extension loaded with a routed provider in its config after another
\* extension registered that provider's models, and has written nothing yet
C12_Witness ==
    /\ event = "load"
    /\ config = [baseUrl |-> GW, providers |-> <<"a">>]
    /\ NativelyRegistered(registry, "a")
    /\ Len(registry["a"].models) = 2
    /\ everRouted = {}

\* C18: while the resolved config is the default one (empty URL, empty provider
\* list), loading and every before_agent_start handler issue no host call, and
\* leave the registry, the enumeration of models and the active model as they were.
C18_UnconfiguredInert ==
    [][(config' = DEFAULT_CONFIG /\ event' \in {"load", "bas"}) =>
        /\ calls' = <<>>
        /\ registry' = registry
        /\ getAll(registry') = getAll(registry)
        /\ activeModel' = activeModel
        /\ everRouted' = everRouted]_vars

C18_Witness ==
    /\ event = "bas"
    /\ config = DEFAULT_CONFIG
    /\ NativelyRegistered(registry, "a")
    /\ NativelyRegistered(registry, "b")
    /\ Len(getAll(registry)) = 3
    /\ activeModel.provider = "a"
    /\ activeModel.baseUrl = Native["a"].baseUrl

\* C19: when the config has an empty gateway URL or an empty provider list, no
\* handler calls setModel.
C19_NoSwitchOnNoOp ==
    [][(IsHandlerStep /\ (config.baseUrl = <<>> \/ config.providers = <<>>)) =>
        CallIdx(calls', "setModel") = {}]_vars

\* C20: when routing is applied (gateway URL and provider list both non-empty),
\* a handler calls setModel only with a model whose connection fields differ
\* from those of the model the host is already using.
C20_SwitchOnlyWhenChanged ==
    [][(IsHandlerStep /\ config.baseUrl # <<>> /\ config.providers # <<>>) =>
        \A i \in CallIdx(calls', "setModel") :
            \/ calls'[i].arg.baseUrl # activeModel.baseUrl
            \/ calls'[i].arg.api # activeModel.api]_vars


----------------------------------------------------------------------------
(* The health probe and URL normalization *)

\* the longest run of slashes that ends s
RECURSIVE TrailingSlashes(_)
TrailingSlashes(s) ==
    IF s # <<>> /\ s[Len(s)] = Slash
    THEN 1 + TrailingSlashes(SubSeq(s, 1, Len(s) - 1))
    ELSE 0

\* C15: whatever the single GET to <url>/v1/models does (2xx response, other
\* response, network error, timeout, a thrown non-Error), checkApertureHealth
\* returns a value and does not throw; the value is ok exactly when a response
\* with a 2xx status arrived, and otherwise carries an error message.
C15_ProbeNeverThrows ==
    fnCall.fn = "checkApertureHealth" =>
        /\ ~fnCall.out.threw
        /\ fnCall.out.ok <=>
               (fnCall.env.kind = "response" /\ fnCall.env.status >= 200
                                             /\ fnCall.env.status < 300)
        /\ ~fnCall.out.ok => fnCall.out.error # <<>>
        /\ fnCall.out.ok => fnCall.out.error = <<>>
        /\ EndsWith(fnCall.out.url, V1MODELS)
        /\ LET base == SubSeq(fnCall.out.url, 1, Len(fnCall.out.url) - Len(V1MODELS))
           IN /\ TrailingSlashes(base) = 0
              /\ \E k \in 0..Len(fnCall.arg) :
                     fnCall.arg = base \o [i \in 1..k |-> Slash]

C15_Witness ==
    /\ fnCall.fn = "checkApertureHealth"
    /\ fnCall.env.kind = "timeout"
    /\ fnCall.arg = HTTP \o GW \o <<Slash>>
    /\ fnCall.out = [threw |-> FALSE, url |-> HTTP \o GW \o V1MODELS, ok |-> FALSE,
                     error |-> <<"The operation was aborted due to timeout">>]


Slashes(k) == [i \in 1..k |-> Slash]

\* out is what the stated rule gives for input: with t the input without its
\* surrounding whitespace, an empty t gives the empty string; otherwise, with u
\* being t behind a scheme (t itself when it starts with http:// or https://),
\* u is out, then a run of slashes, then "/v1" or "/v1/" when u ends in one,
\* and out ends in no slash.
FollowsRule(input, out) ==
    \E i \in 1..(Len(input) + 1), j \in 0..Len(input) :
        /\ i <= j + 1
        /\ \A n \in 1..(i - 1) : input[n] \in WhiteSpace
        /\ \A n \in (j + 1)..Len(input) : input[n] \in WhiteSpace
        /\ LET t == SubSeq(input, i, j)
           IN /\ t # <<>> => (t[1] \notin WhiteSpace /\ t[Len(t)] \notin WhiteSpace)
              /\ IF t = <<>> THEN out = <<>>
                 ELSE LET u == IF StartsWith(t, HTTP) \/ StartsWith(t, HTTPS)
                               THEN t ELSE HTTP \o t
                      IN \E r \in {<<>>, V1, V1 \o <<Slash>>}, k \in 0..Len(u) :
                             /\ u = out \o Slashes(k) \o r
                             /\ TrailingSlashes(out) = 0
                             /\ r = <<>> =>
                                    (~EndsWith(u, V1) /\ ~EndsWith(u, V1 \o <<Slash>>))

ExampleHost ==
    <<"a", "i", ".", "e", "x", "a", "m", "p", "l", "e", ".", "t", "s", ".", "n", "e", "t">>

\* C16: for every input, normalizeUrl returns what the stated rule gives (trim;
\* empty stays empty; http:// prepended unless a scheme is there; one trailing
\* "/v1" or "/v1/" removed; then every trailing slash removed).  The two named
\* addresses normalize to "http://ai.example.ts.net" and blanks to "".
C16_NormalizeRule ==
    /\ fnCall.fn = "normalizeUrl" => FollowsRule(fnCall.arg, fnCall.out)
    /\ fnCall.fn = "normalizeUrl" =>
           /\ normalizeUrl(ExampleHost) = HTTP \o ExampleHost
           /\ normalizeUrl(HTTP \o ExampleHost \o V1 \o <<Slash>>) = HTTP \o ExampleHost
           /\ normalizeUrl(<<" ", " ">>) = <<>>

C16_Witness ==
    /\ fnCall.fn = "normalizeUrl"
    /\ fnCall.arg = <<" ">> \o GW \o V1 \o <<Slash, " ">>
    /\ fnCall.out = HTTP \o GW


----------------------------------------------------------------------------
(* The setup wizard *)

WizardEvents ==
    {"wizard-noui", "wizard-start", "wizard-url", "wizard-url-blank", "wizard-url-empty",
     "wizard-esc-url", "wizard-probe", "wizard-connected", "wizard-ignored",
     "wizard-esc-ignored",
     "wizard-retry", "wizard-esc-failed", "wizard-toggle", "wizard-esc-select",
     "wizard-confirm", "wizard-save", "wizard-save-failed"}

IsWizardStep == event' \in WizardEvents

\* C13: every step of the wizard other than the save after Ctrl+S at the
\* provider selection (in particular Esc at the URL prompt, Esc after a failed
\* health check, Esc at the selection, and the run without a UI) leaves the
\* config, the registry, the active model and lastRegisteredProviders as they
\* were and issues no registry write; the save happens only from the provider
\* selection, and onSetupComplete runs only after a save.
C13_CancelSideEffectFree ==
    [][/\ (IsWizardStep /\ event' # "wizard-save") =>
              /\ config' = config
              /\ registry' = registry
              /\ activeModel' = activeModel
              /\ lastRegisteredProviders' = lastRegisteredProviders
              /\ pending' = pending
              /\ CallsTo(calls', "registerProvider") = {}
              /\ CallsTo(calls', "unregisterProvider") = {}
              /\ CallIdx(calls', "setModel") = {}
       /\ event' = "wizard-save" =>
              /\ wizard.pc = "saving"
              /\ ~pending
              /\ registry' = registry
              /\ activeModel' = activeModel
              /\ lastRegisteredProviders' = lastRegisteredProviders
       /\ (pending' /\ ~pending) => event' = "wizard-save"
       /\ (wizard'.pc = "saving" /\ wizard.pc # "saving") =>
              (wizard.pc = "select" /\ event' = "wizard-confirm")
       /\ event' = "setup" => pending]_vars

\* Esc at the provider selection (reached only after a URL was entered and its
\* check came back ok), with a config loaded and the active model on one of
\* its providers; the handler has returned
C13_Witness ==
    /\ event = "wizard-esc-select"
    /\ wizard = WizardIdle
    /\ config = [baseUrl |-> GW, providers |-> <<"a">>]
    /\ lastRegisteredProviders = <<"a">>
    /\ NativelyRegistered(registry, "a")
    /\ activeModel.provider = "a"

\* C14: the wizard saves a gateway URL only when the check it ran last was for
\* that URL and came back ok; the provider selection opens only after an ok
\* check; after a failed check a handled key leads to the URL prompt or ends
\* the wizard; and a URL accepted at the prompt starts a new check for it.
C14_HealthGate ==
    [][/\ event' = "wizard-save" =>
              /\ wizard.spinner = "settled"
              /\ wizard.result.ok
              /\ wizard.urlToCheck = config'.baseUrl
              /\ wizard.result.url = StripTrailingSlashes(config'.baseUrl) \o V1MODELS
       /\ (wizard'.pc = "select" /\ wizard.pc # "select") =>
              (wizard.pc = "probing" /\ wizard.spinner = "settled" /\ wizard.result.ok)
       /\ (wizard.pc = "probing" /\ wizard.spinner = "settled" /\ ~wizard.result.ok
             /\ wizard' # wizard) =>
              (wizard'.pc \in {"url", "idle"} /\ config' = config /\ ~pending')
       /\ (wizard.pc = "url" /\ wizard'.pc \notin {"url", "idle"}) =>
              /\ wizard'.pc = "probing"
              /\ wizard'.spinner = "inflight"
              /\ wizard'.urlToCheck = wizard'.baseUrl]_vars

C14_Witness ==
    /\ event = "wizard-save"
    /\ pending
    /\ wizard.config.baseUrl = GW
    /\ config.baseUrl = HTTP \o GW
    /\ wizard.urlToCheck = HTTP \o GW
    /\ wizard.result = [threw |-> FALSE, url |-> HTTP \o GW \o V1MODELS, ok |-> TRUE,
                        error |-> <<>>]

\* C17: every gateway URL the wizard saves is non-empty, starts with http:// or
\* https://, ends in no slash and does not end in "/v1".
C17_SavedUrlNormalized ==
    [][event' = "wizard-save" =>
           /\ config'.baseUrl # <<>>
           /\ StartsWith(config'.baseUrl, HTTP) \/ StartsWith(config'.baseUrl, HTTPS)
           /\ TrailingSlashes(config'.baseUrl) = 0
           /\ ~EndsWith(config'.baseUrl, V1)]_vars


----------------------------------------------------------------------------
(* Removal, disabled gateway, remembered list *)

\* C22: every unregisterProvider call is issued by the save handler for a
\* provider that is in lastRegisteredProviders and not in the saved provider
\* list; before_agent_start issues none and un-routes nothing; a handler
\* leaves every provider it neither registers nor unregisters as it was, and
\* no provider of the current config loses its entry.
C22_RemovalOnlyViaDiff ==
    [][/\ \A p \in CallsTo(calls', "unregisterProvider") :
              /\ event' = "setup"
              /\ p \in Range(lastRegisteredProviders)
              /\ p \notin Range(config'.providers)
       /\ event' \in {"bas", "bas-noctx", "load"} =>
              \A p \in Providers : Routed(registry, p) => Routed(registry', p)
       /\ IsHandlerStep =>
              \A p \in Providers :
                  /\ (p \notin CallsTo(calls', "unregisterProvider")
                        /\ p \notin CallsTo(calls', "registerProvider")) =>
                         registry'[p] = registry[p]
                  /\ (p \in Range(config'.providers) /\ registry[p] # Absent) =>
                         registry'[p] # Absent]_vars

C22_Witness ==
    /\ event = "setup"
    /\ CallsTo(calls, "unregisterProvider") = {"a"}
    /\ config = [baseUrl |-> GW, providers |-> <<"b">>]
    /\ Routed(registry, "b")
    /\ registry["a"] = Absent
    /\ Len(registry["b"].models) = 1


\* C23: once the save handler has run for a config whose gateway URL is empty,
\* no provider of the registry carries this extension's routing (the sentinel
\* key and a gateway base URL).
C23_DisabledShadowsNothing ==
    [][(event' = "setup" /\ config'.baseUrl = <<>>) =>
           \A p \in Providers : ~Routed(registry', p)]_vars


\* C26: after the load and after every save handler that returns, the
\* remembered list is the current config's provider list, whatever it was
\* before (replaced, not merged); a before_agent_start event leaves it as it was.
C26_RememberedIsConfig ==
    [][/\ event' \in {"load", "setup"} =>
              lastRegisteredProviders' = config'.providers
       /\ event' \in {"bas", "bas-noctx"} =>
              lastRegisteredProviders' = lastRegisteredProviders]_vars

\* a save handler has replaced a remembered list that shared nothing with the
\* saved one
C26_Witness ==
    /\ event = "setup"
    /\ lastRegisteredProviders = <<"b">>
    /\ config.providers = <<"b">>
    /\ CallsTo(calls, "unregisterProvider") = {"a", "c"}


----------------------------------------------------------------------------
(* Registry rejection *)

\* C21: when pi.registerProvider throws for the k-th provider of the config's
\* list during the save handler, the handler ends there (it assigns no
\* remembered list, switches no model, unregisters nothing, and the
\* "configured" notice is not issued); each provider before the k-th has been
\* written and is routed through the gateway, and the k-th and every later one
\* is as it was.
C21_PartialApplication ==
    [][event' = "setup-throw" =>
        /\ Cardinality(CallIdx(calls', "rejected")) = 1
        /\ calls'[Len(calls')].op = "rejected"
        /\ \E k \in 1..Len(config.providers) :
            /\ calls'[Len(calls')].p = config.providers[k]
            /\ \A i \in 1..(k - 1) :
                LET P == config.providers[i]
                IN /\ CallCount(calls', "registerProvider", P) = 1
                   /\ Routed(registry', P)
                   /\ IsGatewayBase(registry'[P].baseUrl, config.baseUrl)
            /\ \A i \in k..Len(config.providers) :
                LET P == config.providers[i]
                IN /\ P \notin CallsTo(calls', "registerProvider")
                   /\ registry'[P] = registry[P]
        /\ lastRegisteredProviders' = lastRegisteredProviders
        /\ activeModel' = activeModel
        /\ CallIdx(calls', "setModel") = {}
        /\ CallIdx(calls', "unregisterProvider") = {}
        /\ CallIdx(calls', "notify") = {}]_vars

C21_Witness ==
    /\ event = "setup-throw"
    /\ config = [baseUrl |-> GW, providers |-> <<"a", "b">>]
    /\ calls[Len(calls)] = Call("rejected", "b",
                                overrideConfig(ModelsOfProvider(registry, "b"), GW \o V1))
    /\ Routed(registry, "a")
    /\ registry["a"].baseUrl = GW \o V1
    /\ NativelyRegistered(registry, "b")
    /\ lastRegisteredProviders = <<"c">>
    /\ ~pending


\* C24: when Esc was pressed while the health check was in flight and the
\* check then settles, the wizard is cancelled at that moment, with no further
\* key.
C24_CancelQueued ==
    [][(event = "wizard-esc-ignored" /\ wizard.pc = "probing"
          /\ wizard.spinner = "inflight" /\ event' = "wizard-probe") =>
           wizard'.pc = "idle"]_vars


\* C25: in the wizard, onConfigChange runs only after a save has completed;
\* the config it reads is the URL and the selection the wizard saved, so its
\* writes go to the selected providers with the gateway base of the entered
\* URL and the remembered list becomes the selection; when the save rejects,
\* onConfigChange does not run and nothing is written.
C25_SaveBeforeReconcile ==
    [][/\ (pending' /\ ~pending) =>
              /\ event' = "wizard-save"
              /\ config' = [baseUrl |-> wizard.baseUrl, providers |-> wizard.selected]
       /\ event' = "setup" =>
              /\ pending
              /\ config = [baseUrl |-> wizard.baseUrl, providers |-> wizard.selected]
              /\ CallsTo(calls', "registerProvider") = Range(wizard.selected)
              /\ \A i \in CallIdx(calls', "registerProvider") :
                     IsGatewayBase(calls'[i].arg.baseUrl, wizard.baseUrl)
              /\ lastRegisteredProviders' = wizard.selected
       /\ event' = "wizard-save-failed" =>
              /\ ~pending'
              /\ calls' = <<>>
              /\ config' = config
              /\ registry' = registry
              /\ lastRegisteredProviders' = lastRegisteredProviders
              /\ activeModel' = activeModel
       /\ event = "wizard-save-failed" => event' # "setup"]_vars

C25_Witness ==
    /\ event = "setup"
    /\ wizard = WizardIdle
    /\ config = [baseUrl |-> HTTP \o GW, providers |-> <<"b">>]
    /\ CallsTo(calls, "registerProvider") = {"b"}
    /\ CallsTo(calls, "unregisterProvider") = {"a"}
    /\ registry["b"].baseUrl = HTTP \o GW \o V1
    /\ Routed(registry, "b")
    /\ lastRegisteredProviders = <<"b">>


----------------------------------------------------------------------------
(* Interleaving *)

RoutedSet(reg) == {p \in Providers : Routed(reg, p)}

\* C27: with before_agent_start events placed anywhere between the wizard's
\* steps, when the save handler that follows the wizard's save has run, the
\* providers routed through the gateway are exactly those of the saved list,
\* every provider that was routed and is not in the saved list has been
\* unregistered, and the remembered list is the saved list.
C27_InterleavedWizard ==
    [][event' = "setup" =>
        /\ config' = [baseUrl |-> wizard.baseUrl, providers |-> wizard.selected]
        /\ RoutedSet(registry') = Range(wizard.selected)
        /\ \A p \in RoutedSet(registry) \ Range(wizard.selected) :
               /\ p \in CallsTo(calls', "unregisterProvider")
               /\ registry'[p] = Absent
        /\ lastRegisteredProviders' = wizard.selected]_vars

\* a was routed by a before_agent_start event under the loaded config, b was
\* selected instead in the wizard; after the save handler a is gone and b is
\* routed through the entered URL
C27_Witness ==
    /\ event = "setup"
    /\ wizard = WizardIdle
    /\ config = [baseUrl |-> HTTP \o GW, providers |-> <<"b">>]
    /\ everRouted = {"a", "b"}
    /\ CallsTo(calls, "unregisterProvider") = {"a"}
    /\ registry["a"] = Absent
    /\ RoutedSet(registry) = {"b"}
    /\ registry["b"].baseUrl = HTTP \o GW \o V1
    /\ lastRegisteredProviders = <<"b">>

====
